---- MODULE Spec2Model ----
(***************************************************************************)
(* A model of the data layer of the vehicle-statistics explorer            *)
(* (viz/src/lib/data-loader.ts) and of the pages that drive it.            *)
(*                                                                         *)
(* Four specifications share the variables:                                *)
(*   SpecAgg  the pure filter / aggregation functions, applied to a        *)
(*            metrics object drawn from a bounded set;                     *)
(*   Spec     the process-wide document cache, the asynchronous loaders    *)
(*            and the state page that calls them, with the network as the  *)
(*            environment.  An async function runs to its next await in    *)
(*            one step; a document is an object of the heap, so that two   *)
(*            parses of one file are two objects;                          *)
(*   SpecFmt  the number formatters, applied to an argument drawn from a   *)
(*            bounded set around the thresholds;                           *)
(*   SpecUi   the breadcrumbs of a route and the sort state of the metric  *)
(*            table.                                                       *)
(*                                                                         *)
(* A JavaScript object is a sequence of [key, val] entries in its          *)
(* iteration (insertion) order, with pairwise different keys.              *)
(***************************************************************************)
EXTENDS Integers, Sequences, FiniteSets, TLC

VARIABLES
    model,       \* SpecAgg: the OptimizedMetrics object; SpecFmt: the number to format
    view,        \* the last function applied, its arguments and its result
    dataCache,   \* Spec: the module-level Map, as a sequence of [key, val] entries
    heap,        \* Spec: the documents allocated so far, by object identity
    calls,       \* Spec: the loader calls started so far (async activations)
    fetchLog,    \* Spec: the fetch() calls issued, in order, each with its outcome
    page         \* Spec: the state page's route parameter, data, loading and error;
                 \* SpecUi: the MetricTable's sortBy and sortDirection

vars == <<model, view, dataCache, heap, calls, fetchLog, page>>

-----------------------------------------------------------------------------
(* Bounds of the model. *)

MaxPts == 2        \* data points per series
MaxCount == 1      \* largest count of a data point
MaxSeries == 2     \* (metric, name) series per metrics object
MaxCalls == 3      \* loader calls per behaviour

Years == {2022, 2023}
Months == {1, 2}
Counts == 1..MaxCount
Metrics == <<"Transaction", "Revenue (Tax)">>
Names == <<"A", "B", "C">>
ModelNames == {"A", "B"}
AbsentMetric == "Permit Type"
NoName == ""       \* the optional name argument left out (undefined, or '')

-----------------------------------------------------------------------------
(* Values. *)

Front(s) == SubSeq(s, 1, Len(s) - 1)
Last(s) == s[Len(s)]
Range(s) == {s[i] : i \in DOMAIN s}
SeqsUpTo(S, n) == UNION {[1..k -> S] : k \in 0..n}

\* The three legal encodings of a series, and any other JSON value.
ArraySeries(pts) == [kind |-> "array", pts |-> pts, vals |-> <<>>, num |-> 0]
ObjectSeries(vals) == [kind |-> "object", pts |-> <<>>, vals |-> vals, num |-> 0]
NumberSeries(n) == [kind |-> "number", pts |-> <<>>, vals |-> <<>>, num |-> n]
OtherSeries == [kind |-> "other", pts |-> <<>>, vals |-> <<>>, num |-> 0]

Entry(k, v) == [key |-> k, val |-> v]
Keys(obj) == [i \in DOMAIN obj |-> obj[i].key]
Values(obj) == [i \in DOMAIN obj |-> obj[i].val]
HasKey(obj, k) == \E i \in DOMAIN obj : obj[i].key = k
Get(obj, k) == obj[CHOOSE i \in DOMAIN obj : obj[i].key = k].val

-----------------------------------------------------------------------------
(* Totals. *)

RECURSIVE reduceCounts(_)
reduceCounts(monthlyData) ==
    IF monthlyData = <<>> THEN 0
    ELSE reduceCounts(Front(monthlyData)) + Last(monthlyData).count

RECURSIVE reduceValues(_)
reduceValues(values) ==
    IF values = <<>> THEN 0
    ELSE reduceValues(Front(values)) + Last(values)

\* SeriesTotal with the branch for arrays only.
SeriesTotal_ArraysOnly(monthlyData) ==
    IF monthlyData.kind = "array" THEN reduceCounts(monthlyData.pts) ELSE 0

\* The chain of type tests every total is computed with.
SeriesTotal(monthlyData) ==
    IF monthlyData.kind = "array" THEN reduceCounts(monthlyData.pts)
    ELSE IF monthlyData.kind = "object" THEN reduceValues(monthlyData.vals)
    ELSE IF monthlyData.kind = "number" THEN monthlyData.num
    ELSE 0

RECURSIVE SumSeries(_)
SumSeries(seriesSeq) ==
    IF seriesSeq = <<>> THEN 0
    ELSE SumSeries(Front(seriesSeq)) + SeriesTotal(Last(seriesSeq))

\* calculateTotalRecords without the branch for a bare number.
RECURSIVE SumArraySeries(_)
SumArraySeries(seriesSeq) ==
    IF seriesSeq = <<>> THEN 0
    ELSE SumArraySeries(Front(seriesSeq))
         + (IF Last(seriesSeq).kind = "number" THEN 0 ELSE SeriesTotal(Last(seriesSeq)))

RECURSIVE calculateTotalRecords_NoNumber(_)
calculateTotalRecords_NoNumber(optimizedMetrics) ==
    IF optimizedMetrics = <<>> THEN 0
    ELSE calculateTotalRecords_NoNumber(Front(optimizedMetrics))
         + SumArraySeries(Values(Last(optimizedMetrics).val))

RECURSIVE calculateTotalRecords(_)
calculateTotalRecords(optimizedMetrics) ==
    IF optimizedMetrics = <<>> THEN 0
    ELSE calculateTotalRecords(Front(optimizedMetrics))
         + SumSeries(Values(Last(optimizedMetrics).val))

NameMatches(name, currentName) == name = NoName \/ currentName = name

calculateTotalsByMetric(optimizedMetrics, metric, name) ==
    IF ~HasKey(optimizedMetrics, metric) THEN 0
    ELSE LET names == Get(optimizedMetrics, metric)
             chosen == SelectSeq(names, LAMBDA e : NameMatches(name, e.key))
         IN  SumSeries(Values(chosen))

-----------------------------------------------------------------------------
(* Filters.  Array.prototype.filter exists on arrays only: a series in any *)
(* other encoding makes monthlyData.filter(...) raise a TypeError.         *)

TypeError == [threw |-> TRUE, value |-> <<>>]
Returned(v) == [threw |-> FALSE, value |-> v]

AllArrays(optimizedMetrics) ==
    \A i \in DOMAIN optimizedMetrics :
        \A j \in DOMAIN optimizedMetrics[i].val :
            optimizedMetrics[i].val[j].val.kind = "array"

\* filterNamesByYear with find in place of filter: the first point of the year only.
RECURSIVE filterNamesByYear_First(_, _)
filterNamesByYear_First(names, year) ==
    IF names = <<>> THEN <<>>
    ELSE LET e == Last(names)
             yearData == SelectSeq(e.val.pts, LAMBDA data : data.year = year)
             rest == filterNamesByYear_First(Front(names), year)
         IN  IF Len(yearData) > 0
             THEN Append(rest, Entry(e.key, ArraySeries(<<Head(yearData)>>)))
             ELSE rest

\* The inner loop of filterMetricsByYear: filtered[metric] after it.
RECURSIVE filterNamesByYear(_, _)
filterNamesByYear(names, year) ==
    IF names = <<>> THEN <<>>
    ELSE LET e == Last(names)
             yearData == SelectSeq(e.val.pts, LAMBDA data : data.year = year)
             rest == filterNamesByYear(Front(names), year)
         IN  IF Len(yearData) > 0
             THEN Append(rest, Entry(e.key, ArraySeries(yearData)))
             ELSE rest

\* filterEntriesByYear without the deletion of a metric left with no name.
RECURSIVE filterEntriesByYear_KeepEmpty(_, _)
filterEntriesByYear_KeepEmpty(entries, year) ==
    IF entries = <<>> THEN <<>>
    ELSE LET e == Last(entries)
             kept == filterNamesByYear(e.val, year)
             rest == filterEntriesByYear_KeepEmpty(Front(entries), year)
         IN  Append(rest, Entry(e.key, kept))

RECURSIVE filterEntriesByYear(_, _)
filterEntriesByYear(entries, year) ==
    IF entries = <<>> THEN <<>>
    ELSE LET e == Last(entries)
             kept == filterNamesByYear(e.val, year)
             rest == filterEntriesByYear(Front(entries), year)
         IN  IF Len(kept) = 0 THEN rest ELSE Append(rest, Entry(e.key, kept))

filterMetricsByYear(optimizedMetrics, year) ==
    IF ~AllArrays(optimizedMetrics) THEN TypeError
    ELSE Returned(filterEntriesByYear(optimizedMetrics, year))

\* The inner loop of filterMetricsByYearMonth.
RECURSIVE filterNamesByYearMonth(_, _, _)
filterNamesByYearMonth(names, year, month) ==
    IF names = <<>> THEN <<>>
    ELSE LET e == Last(names)
             monthData == SelectSeq(e.val.pts,
                              LAMBDA data : data.year = year /\ data.month = month)
             rest == filterNamesByYearMonth(Front(names), year, month)
         IN  IF Len(monthData) > 0
             THEN Append(rest, Entry(e.key, ArraySeries(monthData)))
             ELSE rest

\* filterEntriesByYearMonth testing the source object, not filtered[metric], for
\* emptiness: a metric whose names were all dropped stays, as an empty object.
RECURSIVE filterEntriesByYearMonth_KeepEmpty(_, _, _)
filterEntriesByYearMonth_KeepEmpty(entries, year, month) ==
    IF entries = <<>> THEN <<>>
    ELSE LET e == Last(entries)
             kept == filterNamesByYearMonth(e.val, year, month)
             rest == filterEntriesByYearMonth_KeepEmpty(Front(entries), year, month)
         IN  IF Len(e.val) = 0 THEN rest ELSE Append(rest, Entry(e.key, kept))

RECURSIVE filterEntriesByYearMonth(_, _, _)
filterEntriesByYearMonth(entries, year, month) ==
    IF entries = <<>> THEN <<>>
    ELSE LET e == Last(entries)
             kept == filterNamesByYearMonth(e.val, year, month)
             rest == filterEntriesByYearMonth(Front(entries), year, month)
         IN  IF Len(kept) = 0 THEN rest ELSE Append(rest, Entry(e.key, kept))

filterMetricsByYearMonth(optimizedMetrics, year, month) ==
    IF ~AllArrays(optimizedMetrics) THEN TypeError
    ELSE Returned(filterEntriesByYearMonth(optimizedMetrics, year, month))

-----------------------------------------------------------------------------
(* Strings, as sequences of one-character strings. *)

Digit == <<"0", "1", "2", "3", "4", "5", "6", "7", "8", "9">>

RECURSIVE NatToString(_)
NatToString(n) ==
    IF n < 10 THEN <<Digit[n + 1]>>
    ELSE Append(NatToString(n \div 10), Digit[(n % 10) + 1])

\* `${n}` for an integer n.
NumberToString(n) == IF n < 0 THEN <<"-">> \o NatToString(0 - n) ELSE NatToString(n)

\* key.split('-')
RECURSIVE split(_)
split(str) ==
    IF str = <<>> THEN << <<>> >>
    ELSE LET parts == split(Front(str))
         IN  IF Last(str) = "-" THEN Append(parts, <<>>)
             ELSE Append(Front(parts), Append(Last(parts), Last(str)))

DigitValue(ch) == (CHOOSE d \in DOMAIN Digit : Digit[d] = ch) - 1

\* Number(str) for a string of decimal digits; Number('') is 0.
RECURSIVE Number(_)
Number(str) ==
    IF str = <<>> THEN 0
    ELSE Number(Front(str)) * 10 + DigitValue(Last(str))

\* `${data.year}-${data.month}`
\* trendKey of the year alone: every month of a year under one key.
trendKey_YearOnly(data) == NumberToString(data.year) \o <<"-">> \o NumberToString(1)

trendKey(data) == NumberToString(data.year) \o <<"-">> \o NumberToString(data.month)

-----------------------------------------------------------------------------
(* Array.prototype.sort: stable, by a comparator named by a tag. *)

\* (a, b) => a.year - b.year || a.month - b.month
compareTrend(a, b) == IF a.year - b.year # 0 THEN a.year - b.year ELSE a.month - b.month

CollationRank(name) == CHOOSE i \in DOMAIN Names : Names[i] = name

\* a.localeCompare(b), for the names of the model: plain upper-case names,
\* which the collation orders alphabetically.
localeCompare(a, b) ==
    IF CollationRank(a) < CollationRank(b) THEN -1
    ELSE IF CollationRank(a) > CollationRank(b) THEN 1
    ELSE 0

\* compareNamesWithTotals without the tiebreak on the name.
compareNamesWithTotals_NoTiebreak(a, b) == b.total - a.total

\* The comparator of getAvailableNamesSortedByTotal.
compareNamesWithTotals(a, b) ==
    LET totalDiff == b.total - a.total
    IN  IF totalDiff # 0 THEN totalDiff ELSE localeCompare(a.name, b.name)

\* (a, b) => b.total_count - a.total_count
compareTotalCount(a, b) == b.total_count - a.total_count

\* (a, b) => b - a
compareDescending(a, b) == b - a

compare(cmp, a, b) ==
    CASE cmp = "trend" -> compareTrend(a, b)
      [] cmp = "namesWithTotals" -> compareNamesWithTotals(a, b)
      [] cmp = "totalCount" -> compareTotalCount(a, b)
      [] cmp = "descending" -> compareDescending(a, b)

\* An insertion that puts x before the elements that compare equal to it.
RECURSIVE insertSorted_Unstable(_, _, _)
insertSorted_Unstable(sorted, x, cmp) ==
    IF sorted = <<>> THEN <<x>>
    ELSE IF compare(cmp, Last(sorted), x) < 0 THEN Append(sorted, x)
    ELSE Append(insertSorted_Unstable(Front(sorted), x, cmp), Last(sorted))

RECURSIVE insertSorted(_, _, _)
insertSorted(sorted, x, cmp) ==
    IF sorted = <<>> THEN <<x>>
    ELSE IF compare(cmp, Last(sorted), x) <= 0 THEN Append(sorted, x)
    ELSE Append(insertSorted(Front(sorted), x, cmp), Last(sorted))

RECURSIVE sort(_, _)
sort(arr, cmp) ==
    IF arr = <<>> THEN <<>>
    ELSE insertSorted(sort(Front(arr), cmp), Last(arr), cmp)

-----------------------------------------------------------------------------
(* Monthly trends. *)

\* trendsMapAdd overwriting the entry of the key instead of adding to it.
trendsMapAdd_Overwrite(trendsMap, data) ==
    LET key == trendKey(data)
    IN  IF HasKey(trendsMap, key)
        THEN [i \in DOMAIN trendsMap |->
                 IF trendsMap[i].key = key THEN Entry(key, data.count)
                 ELSE trendsMap[i]]
        ELSE Append(trendsMap, Entry(key, data.count))

\* trendsMap.set(key, (trendsMap.get(key) || 0) + data.count)
trendsMapAdd(trendsMap, data) ==
    LET key == trendKey(data)
    IN  IF HasKey(trendsMap, key)
        THEN [i \in DOMAIN trendsMap |->
                 IF trendsMap[i].key = key
                 THEN Entry(key, trendsMap[i].val + data.count)
                 ELSE trendsMap[i]]
        ELSE Append(trendsMap, Entry(key, 0 + data.count))

RECURSIVE trendsMapAddAll(_, _)
trendsMapAddAll(trendsMap, monthlyData) ==
    IF monthlyData = <<>> THEN trendsMap
    ELSE trendsMapAdd(trendsMapAddAll(trendsMap, Front(monthlyData)), Last(monthlyData))

\* The loop over the names of the metric; only arrays contribute.
RECURSIVE collectTrends(_, _)
collectTrends(names, name) ==
    IF names = <<>> THEN <<>>
    ELSE LET e == Last(names)
             trendsMap == collectTrends(Front(names), name)
         IN  IF NameMatches(name, e.key) /\ e.val.kind = "array"
             THEN trendsMapAddAll(trendsMap, e.val.pts)
             ELSE trendsMap

\* ([key, total_count]) => { const [year, month] = key.split('-').map(Number); ... }
trendOfEntry(e) ==
    LET parts == split(e.key)
    IN  [year |-> Number(parts[1]), month |-> Number(parts[2]), total_count |-> e.val]

getMonthlyTrendsByMetric(optimizedMetrics, metric, name) ==
    IF ~HasKey(optimizedMetrics, metric) THEN <<>>
    ELSE LET trendsMap == collectTrends(Get(optimizedMetrics, metric), name)
         IN  sort([i \in DOMAIN trendsMap |-> trendOfEntry(trendsMap[i])], "trend")

-----------------------------------------------------------------------------
(* Ranking. *)

getAvailableNamesSortedByTotal(optimizedMetrics, metric) ==
    IF ~HasKey(optimizedMetrics, metric) THEN <<>>
    ELSE LET entries == Get(optimizedMetrics, metric)
             namesWithTotals == [i \in DOMAIN entries |->
                 [name |-> entries[i].key, total |-> SeriesTotal(entries[i].val)]]
             sortedByTotal == sort(namesWithTotals, "namesWithTotals")
         IN  [i \in DOMAIN sortedByTotal |-> sortedByTotal[i].name]

-----------------------------------------------------------------------------
(* Flattening, summaries and the years of the data. *)

\* summaries.set(metric, metricTotal)
MapSetSummary(summaries, metric, metricTotal) ==
    IF HasKey(summaries, metric)
    THEN [i \in DOMAIN summaries |->
             IF summaries[i].key = metric THEN Entry(metric, metricTotal)
             ELSE summaries[i]]
    ELSE Append(summaries, Entry(metric, metricTotal))

\* The inner loop of flattenMetrics: one push per name of the metric.
RECURSIVE flattenNames(_, _)
flattenNames(metric, names) ==
    IF names = <<>> THEN <<>>
    ELSE Append(flattenNames(metric, Front(names)),
                [Metric |-> metric, Name |-> Last(names).key,
                 total_count |-> SeriesTotal(Last(names).val)])

RECURSIVE flattenEntries(_)
flattenEntries(entries) ==
    IF entries = <<>> THEN <<>>
    ELSE flattenEntries(Front(entries))
         \o flattenNames(Last(entries).key, Last(entries).val)

flattenMetrics(optimizedMetrics) == sort(flattenEntries(optimizedMetrics), "totalCount")

\* The summaries Map after the loop over the metrics.
RECURSIVE summariesOf(_)
summariesOf(entries) ==
    IF entries = <<>> THEN <<>>
    ELSE MapSetSummary(summariesOf(Front(entries)), Last(entries).key,
                       SumSeries(Values(Last(entries).val)))

summaryOfEntry(e) == [Metric |-> e.key, total_count |-> e.val]

\* calculateMetricSummaries without the final sort.
calculateMetricSummaries_Unsorted(optimizedMetrics) ==
    LET summaries == summariesOf(optimizedMetrics)
    IN  [i \in DOMAIN summaries |-> summaryOfEntry(summaries[i])]

calculateMetricSummaries(optimizedMetrics) ==
    LET summaries == summariesOf(optimizedMetrics)
    IN  sort([i \in DOMAIN summaries |-> summaryOfEntry(summaries[i])], "totalCount")

\* years.add(data.year) for each data point of a series
RECURSIVE yearsAddAll(_, _)
yearsAddAll(years, monthlyData) ==
    IF monthlyData = <<>> THEN years
    ELSE LET added == yearsAddAll(years, Front(monthlyData))
             year == Last(monthlyData).year
         IN  IF year \in Range(added) THEN added ELSE Append(added, year)

RECURSIVE yearsOfNames(_, _)
yearsOfNames(years, names) ==
    IF names = <<>> THEN years
    ELSE yearsAddAll(yearsOfNames(years, Front(names)), Last(names).val.pts)

RECURSIVE yearsOfEntries(_)
yearsOfEntries(entries) ==
    IF entries = <<>> THEN <<>>
    ELSE yearsOfNames(yearsOfEntries(Front(entries)), Last(entries).val)

\* getAvailableYears returning the latest year only.
getAvailableYears_Latest(optimizedMetrics) ==
    IF ~AllArrays(optimizedMetrics) THEN TypeError
    ELSE LET years == sort(yearsOfEntries(optimizedMetrics), "descending")
         IN  Returned(IF years = <<>> THEN <<>> ELSE <<Head(years)>>)

\* for (const data of monthlyData) needs an iterable: an array of data points.
\* A month-key map, a number, null or a boolean raises a TypeError.
getAvailableYears(optimizedMetrics) ==
    IF ~AllArrays(optimizedMetrics) THEN TypeError
    ELSE Returned(sort(yearsOfEntries(optimizedMetrics), "descending"))

-----------------------------------------------------------------------------
(* The metrics objects the functions are applied to: every object of at    *)
(* most MaxSeries (metric, name) series, each an array of at most MaxPts   *)
(* data points, a month-key map, a bare number or another value.           *)

Points == [year : Years, month : Months, count : Counts]

SeriesSet ==
    {ArraySeries(pts) : pts \in SeqsUpTo(Points, MaxPts)}
    \cup {ObjectSeries(vals) : vals \in SeqsUpTo(Counts, MaxPts)}
    \cup {NumberSeries(n) : n \in Counts}
    \cup {OtherSeries}

InjectiveSeqs(S, k) == {s \in [1..k -> S] : \A i, j \in 1..k : i # j => s[i] # s[j]}

\* The names object with the names ns, in this order, and the series ss.
NamesObject(ns, ss) == [i \in DOMAIN ns |-> Entry(ns[i], ss[i])]

\* model is an object of the metrics ms, in this order, the i-th of size[i] names.
DrawModel(ms, size) ==
    \E ns \in [DOMAIN ms -> SeqsUpTo(ModelNames, MaxSeries)] :
        /\ \A i \in DOMAIN ms :
              /\ Len(ns[i]) = size[i]
              /\ \A j, k \in DOMAIN ns[i] : j # k => ns[i][j] # ns[i][k]
        /\ \E ss \in [DOMAIN ms -> SeqsUpTo(SeriesSet, MaxSeries)] :
              /\ \A i \in DOMAIN ms : Len(ss[i]) = size[i]
              /\ model = [i \in DOMAIN ms |-> Entry(ms[i], NamesObject(ns[i], ss[i]))]

RECURSIVE SumSizes(_)
SumSizes(size) == IF size = <<>> THEN 0 ELSE SumSizes(Front(size)) + Last(size)

MetricArgs == Range(Metrics) \cup {AbsentMetric}
NameArgs == Range(Names) \cup {NoName}

-----------------------------------------------------------------------------
(* SpecAgg: a function is applied to the object; view records the call.    *)

NoView == [op |-> "none", year |-> 0, month |-> 0, metric |-> "", name |-> "",
           threw |-> FALSE, value |-> <<>>, total |-> 0, up |-> FALSE]

UnmountedPage == [state |-> "", data |-> 0, loading |-> TRUE, error |-> ""]

InitLoader ==
    /\ dataCache = <<>>
    /\ heap = <<>>
    /\ calls = <<>>
    /\ fetchLog = <<>>
    /\ page = UnmountedPage

InitAgg ==
    /\ \E n \in 0..Len(Metrics) : \E ms \in InjectiveSeqs(Range(Metrics), n) :
          \E size \in [1..n -> 0..MaxSeries] :
              /\ SumSizes(size) <= MaxSeries
              /\ DrawModel(ms, size)
    /\ view = NoView
    /\ InitLoader

ApplyFilterByYear ==
    \E year \in Years :
        LET r == filterMetricsByYear(model, year)
        IN  view' = [NoView EXCEPT !.op = "filterMetricsByYear", !.year = year,
                                   !.threw = r.threw, !.value = r.value]

ApplyFilterByYearMonth ==
    \E year \in Years, month \in Months :
        LET r == filterMetricsByYearMonth(model, year, month)
        IN  view' = [NoView EXCEPT !.op = "filterMetricsByYearMonth", !.year = year,
                                   !.month = month, !.threw = r.threw,
                                   !.value = r.value]

ApplyTotalRecords ==
    view' = [NoView EXCEPT !.op = "calculateTotalRecords",
                           !.total = calculateTotalRecords(model)]

ApplyTotalsByMetric ==
    \E metric \in MetricArgs, name \in NameArgs :
        view' = [NoView EXCEPT !.op = "calculateTotalsByMetric", !.metric = metric,
                               !.name = name,
                               !.total = calculateTotalsByMetric(model, metric, name)]

ApplyMonthlyTrends ==
    \E metric \in MetricArgs, name \in NameArgs :
        view' = [NoView EXCEPT !.op = "getMonthlyTrendsByMetric", !.metric = metric,
                               !.name = name,
                               !.value = getMonthlyTrendsByMetric(model, metric, name)]

ApplyNamesSortedByTotal ==
    \E metric \in MetricArgs :
        view' = [NoView EXCEPT !.op = "getAvailableNamesSortedByTotal",
                               !.metric = metric,
                               !.value = getAvailableNamesSortedByTotal(model, metric)]

ApplyFlattenMetrics ==
    view' = [NoView EXCEPT !.op = "flattenMetrics", !.value = flattenMetrics(model)]

ApplyMetricSummaries ==
    view' = [NoView EXCEPT !.op = "calculateMetricSummaries",
                           !.value = calculateMetricSummaries(model)]

ApplyAvailableYears ==
    LET r == getAvailableYears(model)
    IN  view' = [NoView EXCEPT !.op = "getAvailableYears", !.threw = r.threw,
                               !.value = r.value]

NextAgg ==
    /\ view.op = "none"
    /\ \/ ApplyFilterByYear
       \/ ApplyFilterByYearMonth
       \/ ApplyTotalRecords
       \/ ApplyTotalsByMetric
       \/ ApplyMonthlyTrends
       \/ ApplyNamesSortedByTotal
       \/ ApplyFlattenMetrics
       \/ ApplyMetricSummaries
       \/ ApplyAvailableYears
    /\ UNCHANGED <<model, dataCache, heap, calls, fetchLog, page>>

SpecAgg == InitAgg /\ [][NextAgg]_vars

-----------------------------------------------------------------------------
(* The loaders and the document cache. *)

States == {"KA", "DL"}
Rtos == {"1"}
ResponseStatuses == {404}
\* The years and months the scoped loaders are called with.
ScopeYears == {2022}
ScopeMonths == {1}
NetworkErrorMessage == "Failed to fetch"

Request(loader, state, rto, year, month) ==
    [loader |-> loader, state |-> state, rto |-> rto, year |-> year, month |-> month]

Requests ==
    {Request("loadCountryData", "", "", 0, 0), Request("loadStatesIndex", "", "", 0, 0)}
    \cup {Request("loadCountryYearData", "", "", y, 0) : y \in ScopeYears}
    \cup {Request("loadCountryMonthData", "", "", y, m) :
             y \in ScopeYears, m \in ScopeMonths}
    \cup {Request("loadStateData", st, "", 0, 0) : st \in States}
    \cup {Request("loadStateYearData", st, "", y, 0) : st \in States, y \in ScopeYears}
    \cup {Request("loadStateMonthData", st, "", y, m) :
             st \in States, y \in ScopeYears, m \in ScopeMonths}
    \cup {Request("loadRTOData", st, r, 0, 0) : st \in States, r \in Rtos}

CountryScoped == {"loadCountryYearData", "loadCountryMonthData"}
StateScoped == {"loadStateYearData", "loadStateMonthData"}
IsScoped(req) == req.loader \in CountryScoped \cup StateScoped

\* The loader a scoped loader awaits for the full document.
ParentRequest(req) ==
    IF req.loader \in CountryScoped THEN Request("loadCountryData", "", "", 0, 0)
    ELSE Request("loadStateData", req.state, "", 0, 0)

cacheKey(req) ==
    CASE req.loader = "loadCountryData" -> "country"
      [] req.loader = "loadCountryYearData" -> "country-year-" \o ToString(req.year)
      [] req.loader = "loadCountryMonthData" ->
             "country-month-" \o ToString(req.year) \o "-" \o ToString(req.month)
      [] req.loader = "loadStatesIndex" -> "states-index"
      [] req.loader = "loadStateData" -> "state-" \o req.state
      [] req.loader = "loadStateYearData" ->
             "state-year-" \o req.state \o "-" \o ToString(req.year)
      [] req.loader = "loadStateMonthData" ->
             "state-month-" \o req.state \o "-" \o ToString(req.year)
                 \o "-" \o ToString(req.month)
      [] req.loader = "loadRTOData" -> "rto-" \o req.state \o "-" \o req.rto

\* The URL a loader that fetches hands to fetch().
fetchUrl(req) ==
    CASE req.loader = "loadCountryData" -> "/data/country.json"
      [] req.loader = "loadStatesIndex" -> "/data/states.json"
      [] req.loader = "loadStateData" -> "/data/state_" \o req.state \o ".json"
      [] req.loader = "loadRTOData" ->
             "/data/rto_" \o req.state \o "_" \o req.rto \o ".json"

\* The message of the Error a loader throws on a response that is not ok.
failureMessage(req, status) ==
    CASE req.loader = "loadCountryData" ->
             "Failed to load country data: " \o ToString(status)
      [] req.loader = "loadStatesIndex" ->
             "Failed to load states index: " \o ToString(status)
      [] req.loader = "loadStateData" ->
             "Failed to load state data for " \o req.state \o ": " \o ToString(status)
      [] req.loader = "loadRTOData" ->
             "Failed to load RTO data for " \o req.state \o "-" \o req.rto
                 \o ": " \o ToString(status)

\* The static files the site serves.
Point(y, m, n) == [year |-> y, month |-> m, count |-> n]

FileMetrics(scale) ==
    <<Entry("Transaction",
            <<Entry("A", ArraySeries(<<Point(2022, 1, 10 * scale), Point(2022, 2, 20 * scale),
                                       Point(2023, 1, 5 * scale)>>)),
              Entry("B", ArraySeries(<<Point(2023, 2, scale)>>))>>),
      Entry("Revenue (Tax)",
            <<Entry("A", ArraySeries(<<Point(2023, 1, 7 * scale)>>))>>)>>

Document(level, state, code, metrics, children) ==
    [level |-> level, state |-> state, code |-> code, metrics |-> metrics,
     children |-> children]

StateScale(st) == IF st = "KA" THEN 2 ELSE 3

FileContent(req) ==
    CASE req.loader = "loadCountryData" ->
             Document("country", "", "", FileMetrics(5),
                      <<[code |-> "DL", total_count |-> 129],
                        [code |-> "KA", total_count |-> 86]>>)
      [] req.loader = "loadStatesIndex" ->
             Document("index", "", "", <<>>,
                      <<[code |-> "DL", total_count |-> 129],
                        [code |-> "KA", total_count |-> 86]>>)
      [] req.loader = "loadStateData" ->
             Document("state", req.state, "", FileMetrics(StateScale(req.state)),
                      <<[code |-> "1", total_count |-> 43 * StateScale(req.state)]>>)
      [] req.loader = "loadRTOData" ->
             Document("rto", req.state, req.rto, FileMetrics(1), <<>>)

\* A cache of one entry: a set evicts what was stored before.
MapSet_Evicting(map, key, val) == <<Entry(key, val)>>

\* Map.prototype.set
MapSet(map, key, val) ==
    IF HasKey(map, key)
    THEN [i \in DOMAIN map |-> IF map[i].key = key THEN Entry(key, val) ELSE map[i]]
    ELSE Append(map, Entry(key, val))

IsPending(call) == call.pc \in {"fetching", "parentFetching", "parentReady"}

NewCall(req, byPage, cs) ==
    [req |-> req, page |-> byPage, resumed |-> FALSE, hit |-> FALSE,
     overlap |-> \E c \in DOMAIN cs : IsPending(cs[c]),
     pc |-> "fetching", parent |-> 0, result |-> 0, err |-> ""]

Fetch(url, c) == [url |-> url, call |-> c, outcome |-> "pending"]

\* loadBase without the cache check: every call fetches.
loadBase_NoCache(req, c, log) ==
    [settled |-> FALSE, value |-> 0, log |-> Append(log, Fetch(fetchUrl(req), c))]

\* loadBase sharing a fetch in flight: no fetch while one of the URL is pending.
loadBase_Dedup(req, c, log) ==
    IF HasKey(dataCache, cacheKey(req))
    THEN [settled |-> TRUE, value |-> Get(dataCache, cacheKey(req)), log |-> log]
    ELSE IF \E i \in DOMAIN log :
                log[i].url = fetchUrl(req) /\ log[i].outcome = "pending"
         THEN [settled |-> FALSE, value |-> 0, log |-> log]
         ELSE [settled |-> FALSE, value |-> 0,
               log |-> Append(log, Fetch(fetchUrl(req), c))]

\* A loader that fetches, to its first await: the cached document, or a fetch.
loadBase(req, c, log) ==
    IF HasKey(dataCache, cacheKey(req))
    THEN [settled |-> TRUE, value |-> Get(dataCache, cacheKey(req)), log |-> log]
    ELSE [settled |-> FALSE, value |-> 0, log |-> Append(log, Fetch(fetchUrl(req), c))]

\* loadScoped fetching the full document itself instead of awaiting its loader.
loadScoped_FetchesParent(req, c, log) ==
    IF HasKey(dataCache, cacheKey(req))
    THEN [pc |-> "returned", hit |-> TRUE, parent |-> 0,
          result |-> Get(dataCache, cacheKey(req)), log |-> log]
    ELSE [pc |-> "parentFetching", hit |-> FALSE, parent |-> 0, result |-> 0,
          log |-> Append(log, Fetch(fetchUrl(ParentRequest(req)), c))]

\* A year- or month-scoped loader, to its first await.
loadScoped(req, c, log) ==
    IF HasKey(dataCache, cacheKey(req))
    THEN [pc |-> "returned", hit |-> TRUE, parent |-> 0,
          result |-> Get(dataCache, cacheKey(req)), log |-> log]
    ELSE LET fullData == loadBase(ParentRequest(req), c, log)
         IN  [pc |-> IF fullData.settled THEN "parentReady" ELSE "parentFetching",
              hit |-> FALSE, parent |-> fullData.value, result |-> 0,
              log |-> fullData.log]

\* A loader called: the calls and the fetch log after its synchronous part.
StartLoader(req, byPage, cs, log) ==
    LET c == Len(cs) + 1
        call == NewCall(req, byPage, cs)
    IN  IF IsScoped(req)
        THEN LET r == loadScoped(req, c, log)
             IN  [calls |-> Append(cs, [call EXCEPT !.pc = r.pc, !.hit = r.hit,
                                                    !.parent = r.parent,
                                                    !.result = r.result]),
                  log |-> r.log]
        ELSE LET r == loadBase(req, c, log)
             IN  [calls |-> Append(cs, [call EXCEPT
                                           !.pc = IF r.settled THEN "returned"
                                                  ELSE "fetching",
                                           !.hit = r.settled, !.result = r.value]),
                  log |-> r.log]

\* Any caller but the state page calls a loader.
CallLoader ==
    \E req \in Requests :
        /\ Len(calls) < MaxCalls
        /\ LET r == StartLoader(req, FALSE, calls, fetchLog)
           IN  /\ calls' = r.calls
               /\ fetchLog' = r.log
        /\ UNCHANGED <<model, view, dataCache, heap, page>>

\* The values of the state page's route parameter: the state codes, and a
\* path segment that is no state code.
PageStates == States \cup {"year-KA-2022"}

\* The state page's loadData, to its await.
loadData(st, cs, log) == StartLoader(Request("loadStateData", st, "", 0, 0), TRUE, cs, log)

\* The state page is created for a state: the reactive block runs loadData when
\* the component is initialised, and onMount runs it again.
MountStatePage ==
    \E st \in PageStates :
        /\ page.state = ""
        /\ Len(calls) + 2 <= MaxCalls
        /\ LET reactive == loadData(st, calls, fetchLog)
               mounted == loadData(st, reactive.calls, reactive.log)
           IN  /\ calls' = mounted.calls
               /\ fetchLog' = mounted.log
        /\ page' = [page EXCEPT !.state = st, !.loading = TRUE, !.error = ""]
        /\ UNCHANGED <<model, view, dataCache, heap>>

\* The route parameter of the mounted state page changes: the reactive block
\* runs loadData for the new state.
NavigateStatePage ==
    \E st \in PageStates :
        /\ page.state # ""
        /\ page.state # st
        /\ Len(calls) < MaxCalls
        /\ LET r == loadData(st, calls, fetchLog)
           IN  /\ calls' = r.calls
               /\ fetchLog' = r.log
        /\ page' = [page EXCEPT !.state = st, !.loading = TRUE, !.error = ""]
        /\ UNCHANGED <<model, view, dataCache, heap>>

\* The request whose file call c is fetching.
FetchedRequest(call) ==
    IF call.pc = "parentFetching" THEN ParentRequest(call.req) ELSE call.req

SettleFetch(log, c, outcome) ==
    [i \in DOMAIN log |->
        IF log[i].call = c /\ log[i].outcome = "pending"
        THEN [log[i] EXCEPT !.outcome = outcome] ELSE log[i]]

\* The site serves a file for the request.
FileExists(req) == req \in Requests

\* The response of call c's fetch is ok and parses: the document is cached.
FetchSucceeds(c) ==
    /\ calls[c].pc \in {"fetching", "parentFetching"}
    /\ FileExists(FetchedRequest(calls[c]))
    /\ LET req == FetchedRequest(calls[c])
           data == Len(heap) + 1
       IN  /\ heap' = Append(heap, FileContent(req))
           /\ dataCache' = MapSet(dataCache, cacheKey(req), data)
           /\ calls' = [calls EXCEPT
                  ![c] = IF calls[c].pc = "fetching"
                         THEN [@ EXCEPT !.pc = "returned", !.result = data]
                         ELSE [@ EXCEPT !.pc = "parentReady", !.parent = data]]
    /\ fetchLog' = SettleFetch(fetchLog, c, "ok")
    /\ UNCHANGED <<model, view, page>>

\* FailCall caching the failure under the key of the file.
FailCall_StoresFailure(c, message) ==
    /\ calls' = [calls EXCEPT ![c] = [@ EXCEPT !.pc = "threw", !.err = message]]
    /\ fetchLog' = SettleFetch(fetchLog, c, "failed")
    /\ heap' = Append(heap, Document("error", "", message, <<>>, <<>>))
    /\ dataCache' = MapSet(dataCache, cacheKey(FetchedRequest(calls[c])), Len(heap) + 1)
    /\ UNCHANGED <<model, view, page>>

\* FailCall leaving a document without metrics under the key of the call.
FailCall_StoresPartial(c, message) ==
    /\ calls' = [calls EXCEPT ![c] = [@ EXCEPT !.pc = "threw", !.err = message]]
    /\ fetchLog' = SettleFetch(fetchLog, c, "failed")
    /\ heap' = Append(heap, Document("partial", calls[c].req.state, "", <<>>, <<>>))
    /\ dataCache' = MapSet(dataCache, cacheKey(calls[c].req), Len(heap) + 1)
    /\ UNCHANGED <<model, view, page>>

\* The error call c's loader rethrows; nothing is stored.
FailCall(c, message) ==
    /\ calls' = [calls EXCEPT ![c] = [@ EXCEPT !.pc = "threw", !.err = message]]
    /\ fetchLog' = SettleFetch(fetchLog, c, "failed")
    /\ UNCHANGED <<model, view, dataCache, heap, page>>

\* The response of call c's fetch is not ok.
FetchNotOk(c) ==
    \E status \in ResponseStatuses :
        /\ calls[c].pc \in {"fetching", "parentFetching"}
        /\ FailCall(c, failureMessage(FetchedRequest(calls[c]), status))

\* Call c's fetch is rejected: the transport failed.
FetchRejected(c) ==
    /\ calls[c].pc \in {"fetching", "parentFetching"}
    /\ FailCall(c, NetworkErrorMessage)

\* The metrics of a scoped document.
scopedMetrics(req, fullData) ==
    IF req.loader \in {"loadCountryYearData", "loadStateYearData"}
    THEN filterMetricsByYear(fullData.metrics, req.year)
    ELSE filterMetricsByYearMonth(fullData.metrics, req.year, req.month)

\* ScopedLoaderResumes assigning the filtered metrics and the empty child list
\* to the full document instead of to a copy.
ScopedLoaderResumes_InPlace(c) ==
    /\ calls[c].pc = "parentReady"
    /\ LET fullData == heap[calls[c].parent]
           filteredMetrics == scopedMetrics(calls[c].req, fullData)
       IN  IF filteredMetrics.threw
           THEN /\ calls' = [calls EXCEPT
                       ![c] = [@ EXCEPT !.pc = "threw", !.err = "TypeError"]]
                /\ UNCHANGED <<heap, dataCache>>
           ELSE /\ heap' = [heap EXCEPT ![calls[c].parent] =
                                [fullData EXCEPT !.metrics = filteredMetrics.value,
                                                 !.children = <<>>]]
                /\ dataCache' = MapSet(dataCache, cacheKey(calls[c].req),
                                       calls[c].parent)
                /\ calls' = [calls EXCEPT
                       ![c] = [@ EXCEPT !.pc = "returned", !.result = calls[c].parent]]
    /\ UNCHANGED <<model, view, fetchLog, page>>

\* ScopedLoaderResumes without the empty child list: the copy keeps the
\* children of the full document.
ScopedLoaderResumes_KeepsChildren(c) ==
    /\ calls[c].pc = "parentReady"
    /\ LET fullData == heap[calls[c].parent]
           filteredMetrics == scopedMetrics(calls[c].req, fullData)
           scopedData == Len(heap) + 1
       IN  IF filteredMetrics.threw
           THEN /\ calls' = [calls EXCEPT
                       ![c] = [@ EXCEPT !.pc = "threw", !.err = "TypeError"]]
                /\ UNCHANGED <<heap, dataCache>>
           ELSE /\ heap' = Append(heap, [fullData EXCEPT
                                            !.metrics = filteredMetrics.value])
                /\ dataCache' = MapSet(dataCache, cacheKey(calls[c].req), scopedData)
                /\ calls' = [calls EXCEPT
                       ![c] = [@ EXCEPT !.pc = "returned", !.result = scopedData]]
    /\ UNCHANGED <<model, view, fetchLog, page>>

\* A scoped loader resumes with the full document: the filtered copy, with an
\* empty child list, is stored under the scoped key.
ScopedLoaderResumes(c) ==
    /\ calls[c].pc = "parentReady"
    /\ LET fullData == heap[calls[c].parent]
           filteredMetrics == scopedMetrics(calls[c].req, fullData)
           scopedData == Len(heap) + 1
       IN  IF filteredMetrics.threw
           THEN /\ calls' = [calls EXCEPT
                       ![c] = [@ EXCEPT !.pc = "threw", !.err = "TypeError"]]
                /\ UNCHANGED <<heap, dataCache>>
           ELSE /\ heap' = Append(heap, [fullData EXCEPT
                                            !.metrics = filteredMetrics.value,
                                            !.children = <<>>])
                /\ dataCache' = MapSet(dataCache, cacheKey(calls[c].req), scopedData)
                /\ calls' = [calls EXCEPT
                       ![c] = [@ EXCEPT !.pc = "returned", !.result = scopedData]]
    /\ UNCHANGED <<model, view, fetchLog, page>>

\* The state page's loadData resumes after its await.
LoadDataResumes(c) ==
    /\ calls[c].page
    /\ ~calls[c].resumed
    /\ calls[c].pc \in {"returned", "threw"}
    /\ calls' = [calls EXCEPT ![c] = [@ EXCEPT !.resumed = TRUE]]
    /\ page' = IF calls[c].pc = "returned"
               THEN [page EXCEPT !.data = calls[c].result, !.loading = FALSE]
               ELSE [page EXCEPT !.error = calls[c].err, !.loading = FALSE]
    /\ UNCHANGED <<model, view, dataCache, heap, fetchLog>>

\* An RTO year or month page filters the metrics of the document it loaded.
FilterLoadedDocument(c) ==
    /\ view.op = "none"
    /\ calls[c].pc = "returned"
    /\ calls[c].req.loader = "loadRTOData"
    /\ \/ \E year \in ScopeYears :
             LET r == filterMetricsByYear(heap[calls[c].result].metrics, year)
             IN  view' = [NoView EXCEPT !.op = "filterMetricsByYear", !.year = year,
                                        !.threw = r.threw, !.value = r.value]
       \/ \E year \in ScopeYears, month \in ScopeMonths :
             LET r == filterMetricsByYearMonth(heap[calls[c].result].metrics,
                                               year, month)
             IN  view' = [NoView EXCEPT !.op = "filterMetricsByYearMonth",
                                        !.year = year, !.month = month,
                                        !.threw = r.threw, !.value = r.value]
    /\ UNCHANGED <<model, dataCache, heap, calls, fetchLog, page>>

Init ==
    /\ model = <<>>
    /\ view = NoView
    /\ InitLoader

Next ==
    \/ CallLoader
    \/ MountStatePage
    \/ NavigateStatePage
    \/ \E c \in DOMAIN calls : FetchSucceeds(c)
    \/ \E c \in DOMAIN calls : FetchNotOk(c)
    \/ \E c \in DOMAIN calls : FetchRejected(c)
    \/ \E c \in DOMAIN calls : ScopedLoaderResumes(c)
    \/ \E c \in DOMAIN calls : LoadDataResumes(c)
    \/ \E c \in DOMAIN calls : FilterLoadedDocument(c)

Spec == Init /\ [][Next]_vars

-----------------------------------------------------------------------------
(* The formatters.  Under SpecFmt model is the argument of a formatter and *)
(* view its result.                                                        *)

MaxOffset == 3         \* arguments this far on each side of a threshold
MaxTwentieths == 40    \* arguments up to this many twentieths above a threshold

Crore == 10000000
Lakh == 100000
Thousand == 1000

NumberValue(n) == [kind |-> "number", n |-> n]
NullValue == [kind |-> "null", n |-> 0]
UndefinedValue == [kind |-> "undefined", n |-> 0]
NaNValue == [kind |-> "NaN", n |-> 0]

\* num == null
looseEqualsNull(num) == num.kind \in {"null", "undefined"}

\* An isNaN that is never true.
isNaN_Never(num) == FALSE

\* isNaN(num): ToNumber(undefined) is NaN, ToNumber(null) is 0.
isNaN(num) == num.kind \in {"NaN", "undefined"}

\* num >= k, for a positive k: false for NaN and undefined, and for null (0).
greaterOrEqual(num, k) == num.kind = "number" /\ num.n >= k

\* num.toString()
toString(num) ==
    CASE num.kind = "number" -> Returned(ToString(num.n))
      [] num.kind = "NaN" -> Returned("NaN")
      [] OTHER -> TypeError

\* The digits of (num / d).toFixed(1) cut off, not rounded.
toFixed_Truncating(num, d, up) ==
    LET tenths == (10 * num.n) \div d
    IN  ToString(tenths \div 10) \o "." \o ToString(tenths % 10)

\* (num / d).toFixed(1): the tenth nearest to the quotient.  When the quotient
\* lies midway between two tenths it is no binary64 number; the nearest
\* binary64 lies above it (up) or below it, and toFixed rounds that number.
toFixed(num, d, up) ==
    LET quotient == (10 * num.n) \div d
        remainder == (10 * num.n) % d
        tenths == IF 2 * remainder > d THEN quotient + 1
                  ELSE IF 2 * remainder < d THEN quotient
                  ELSE IF up THEN quotient + 1 ELSE quotient
    IN  ToString(tenths \div 10) \o "." \o ToString(tenths % 10)

formatNumber(num, up) ==
    IF looseEqualsNull(num) \/ isNaN(num) THEN Returned("0")
    ELSE IF greaterOrEqual(num, Crore) THEN Returned(toFixed(num, Crore, up) \o " Cr")
    ELSE IF greaterOrEqual(num, Lakh) THEN Returned(toFixed(num, Lakh, up) \o " L")
    ELSE IF greaterOrEqual(num, Thousand)
         THEN Returned(toFixed(num, Thousand, up) \o "K")
    ELSE toString(num)

\* formatCurrency with a bare zero for an invalid argument.
formatCurrency_BareZero(num, up) ==
    IF looseEqualsNull(num) \/ isNaN(num) THEN Returned("0")
    ELSE LET str == formatNumber(num, up)
         IN  IF str.threw THEN TypeError ELSE Returned("₹" \o str.value)

formatCurrency(num, up) ==
    IF looseEqualsNull(num) \/ isNaN(num) THEN Returned("₹0")
    ELSE IF greaterOrEqual(num, Crore)
         THEN Returned("₹" \o toFixed(num, Crore, up) \o " Cr")
    ELSE IF greaterOrEqual(num, Lakh)
         THEN Returned("₹" \o toFixed(num, Lakh, up) \o " L")
    ELSE IF greaterOrEqual(num, Thousand)
         THEN Returned("₹" \o toFixed(num, Thousand, up) \o "K")
    ELSE LET str == toString(num)
         IN  IF str.threw THEN TypeError ELSE Returned("₹" \o str.value)

\* formatCount without the lakh tier.
formatCount_NoLakh(num, up) ==
    IF looseEqualsNull(num) \/ isNaN(num) THEN Returned("0")
    ELSE IF greaterOrEqual(num, Crore) THEN Returned(toFixed(num, Crore, up) \o " Cr")
    ELSE IF greaterOrEqual(num, Thousand)
         THEN Returned(toFixed(num, Thousand, up) \o "K")
    ELSE toString(num)

formatCount(num, up) ==
    IF looseEqualsNull(num) \/ isNaN(num) THEN Returned("0")
    ELSE IF greaterOrEqual(num, Crore) THEN Returned(toFixed(num, Crore, up) \o " Cr")
    ELSE IF greaterOrEqual(num, Lakh) THEN Returned(toFixed(num, Lakh, up) \o " L")
    ELSE IF greaterOrEqual(num, Thousand)
         THEN Returned(toFixed(num, Thousand, up) \o "K")
    ELSE toString(num)

\* A metric name, as the sequence of its characters.
RevenuePrefix == <<"R", "e", "v", "e", "n", "u", "e">>
RevenueTax == RevenuePrefix \o <<" ", "(", "T", "a", "x", ")">>
RevenueFee == RevenuePrefix \o <<" ", "(", "F", "e", "e", ")">>
TaxRevenue == <<"T", "a", "x", " ">> \o RevenuePrefix
LowerRevenue == <<"r">> \o Tail(RevenuePrefix)
Reven == SubSeq(RevenuePrefix, 1, 5)
Transaction == <<"T", "r", "a", "n", "s", "a", "c", "t", "i", "o", "n">>

FormatMetrics ==
    {RevenuePrefix, RevenueTax, RevenueFee, TaxRevenue, LowerRevenue, Reven,
     Transaction, <<>>}

\* String.prototype.includes in place of startsWith.
startsWith_Includes(str, searchString) ==
    \E i \in 0..(Len(str) - Len(searchString)) :
        SubSeq(str, i + 1, i + Len(searchString)) = searchString

\* String.prototype.startsWith
startsWith(str, searchString) ==
    /\ Len(str) >= Len(searchString)
    /\ SubSeq(str, 1, Len(searchString)) = searchString

formatMetricValue(value, metric, up) ==
    IF startsWith(metric, RevenuePrefix) THEN formatCurrency(value, up)
    ELSE formatCount(value, up)

Thresholds == {Thousand, Lakh, Crore}

FormatArgs ==
    {NumberValue(t + k) : t \in Thresholds \cup {0}, k \in (0 - MaxOffset)..MaxOffset}
    \cup {NumberValue((t * j) \div 20) : t \in Thresholds, j \in 20..(20 + MaxTwentieths)}
    \cup {NullValue, UndefinedValue, NaNValue}

InitFmt ==
    /\ model \in FormatArgs
    /\ view = NoView
    /\ InitLoader

Formatted(op, r, up) ==
    [NoView EXCEPT !.op = op, !.threw = r.threw, !.value = r.value, !.up = up]

ApplyFormatNumber ==
    \E up \in BOOLEAN : view' = Formatted("formatNumber", formatNumber(model, up), up)

ApplyFormatCurrency ==
    \E up \in BOOLEAN :
        view' = Formatted("formatCurrency", formatCurrency(model, up), up)

ApplyFormatCount ==
    \E up \in BOOLEAN : view' = Formatted("formatCount", formatCount(model, up), up)

ApplyFormatMetricValue ==
    \E up \in BOOLEAN, metric \in FormatMetrics :
        view' = [Formatted("formatMetricValue", formatMetricValue(model, metric, up), up)
                     EXCEPT !.metric = metric]

NextFmt ==
    /\ view.op = "none"
    /\ \/ ApplyFormatNumber
       \/ ApplyFormatCurrency
       \/ ApplyFormatCount
       \/ ApplyFormatMetricValue
    /\ UNCHANGED <<model, dataCache, heap, calls, fetchLog, page>>

SpecFmt == InitFmt /\ [][NextFmt]_vars

-----------------------------------------------------------------------------
(* Breadcrumbs and the sort state of the metric table.  Under SpecUi page  *)
(* is the state of a MetricTable and view the breadcrumbs last generated.  *)

MonthNames ==
    <<"Jan", "Feb", "Mar", "Apr", "May", "Jun", "Jul", "Aug", "Sep", "Oct", "Nov", "Dec">>

\* months[month - 1] || ''
getMonthName(month) == IF month \in DOMAIN MonthNames THEN MonthNames[month] ELSE ""

\* parseInt of a route parameter written in decimal digits.
parseInt(str) == CHOOSE n \in 0..99 : ToString(n) = str

Crumb(label, href, current) == [label |-> label, href |-> href, current |-> current]

\* The breadcrumbs after the pushes, before the last item is marked.
pushBreadcrumbs(state, rto, year, month) ==
    LET india == <<Crumb("India", "/", FALSE)>>
        monthLabel == getMonthName(parseInt(month))
    IN  IF state = "" /\ year # ""
        THEN india
             \o <<Crumb(year, "/ALL/" \o year, FALSE)>>
             \o (IF month # ""
                 THEN <<Crumb(monthLabel, "/ALL/" \o year \o "/" \o month, TRUE)>>
                 ELSE <<>>)
        ELSE IF state # ""
        THEN india
             \o <<Crumb(state, "/" \o state, FALSE)>>
             \o (IF year # "" /\ rto = ""
                 THEN <<Crumb(year, "/" \o state \o "/ALL/" \o year, FALSE)>>
                      \o (IF month # ""
                          THEN <<Crumb(monthLabel,
                                       "/" \o state \o "/ALL/" \o year \o "/" \o month,
                                       TRUE)>>
                          ELSE <<>>)
                 ELSE IF rto # ""
                 THEN <<Crumb("RTO " \o rto, "/" \o state \o "/" \o rto, FALSE)>>
                      \o (IF year # ""
                          THEN <<Crumb(year, "/" \o state \o "/" \o rto \o "/" \o year,
                                       FALSE)>>
                          ELSE <<>>)
                      \o (IF year # "" /\ month # ""
                          THEN <<Crumb(monthLabel,
                                       "/" \o state \o "/" \o rto \o "/" \o year
                                           \o "/" \o month,
                                       TRUE)>>
                          ELSE <<>>)
                 ELSE <<>>)
        ELSE india

\* markLast marking every item that is not marked yet.
markLast_All(breadcrumbs) ==
    IF \E i \in DOMAIN breadcrumbs : breadcrumbs[i].current THEN breadcrumbs
    ELSE [i \in DOMAIN breadcrumbs |-> [breadcrumbs[i] EXCEPT !.current = TRUE]]

\* Mark the last item as current if no item is.
markLast(breadcrumbs) ==
    IF Len(breadcrumbs) > 0 /\ ~\E i \in DOMAIN breadcrumbs : breadcrumbs[i].current
    THEN [breadcrumbs EXCEPT ![Len(breadcrumbs)].current = TRUE]
    ELSE breadcrumbs

generateBreadcrumbs(level, state, rto, year, month) ==
    markLast(pushBreadcrumbs(state, rto, year, month))

RouteLevels == {"country", "state", "rto"}
RouteStates == {"", "KA", "DL"}
RouteRtos == {"", "1"}
RouteYears == {"", "2022", "2023"}
RouteMonths == {"", "1", "2", "13"}

SortState(sortBy, sortDirection, clicked) ==
    [sortBy |-> sortBy, sortDirection |-> sortDirection, clicked |-> clicked]

\* toggleSort setting the default direction on every click.
toggleSort_AlwaysDefault(table, newSortBy) ==
    SortState(newSortBy, IF newSortBy = "name" THEN "asc" ELSE "desc", newSortBy)

toggleSort(table, newSortBy) ==
    IF table.sortBy = newSortBy
    THEN SortState(table.sortBy, IF table.sortDirection = "asc" THEN "desc" ELSE "asc",
                   newSortBy)
    ELSE SortState(newSortBy, IF newSortBy = "name" THEN "asc" ELSE "desc", newSortBy)

SortColumns == {"name", "count"}

InitUi ==
    /\ model = <<>>
    /\ view = NoView
    /\ dataCache = <<>>
    /\ heap = <<>>
    /\ calls = <<>>
    /\ fetchLog = <<>>
    /\ page = SortState("count", "desc", "")

GenerateBreadcrumbs ==
    /\ \E level \in RouteLevels, state \in RouteStates, rto \in RouteRtos,
          year \in RouteYears, month \in RouteMonths :
          view' = [NoView EXCEPT
                      !.op = "generateBreadcrumbs",
                      !.value = generateBreadcrumbs(level, state, rto, year, month)]
    /\ UNCHANGED <<model, dataCache, heap, calls, fetchLog, page>>

ToggleSort ==
    /\ \E newSortBy \in SortColumns : page' = toggleSort(page, newSortBy)
    /\ UNCHANGED <<model, view, dataCache, heap, calls, fetchLog>>

NextUi ==
    \/ GenerateBreadcrumbs
    \/ ToggleSort

SpecUi == InitUi /\ [][NextUi]_vars

-----------------------------------------------------------------------------
(* Claims about the loaders and the cache, checked under Spec. *)

NewCalls == DOMAIN calls' \ DOMAIN calls
FetchesBy(log, c) == {i \in DOMAIN log : log[i].call = c}
FetchesOf(log, url) == {i \in DOMAIN log : log[i].url = url}
\* The loader whose file a call for req reads.
FileRequest(req) == IF IsScoped(req) THEN ParentRequest(req) ELSE req

\* C2: once a call of a loader has returned, a later call of the same loader
\* with the same arguments returns, without awaiting, the very object the cache
\* holds under its key, and issues no fetch and stores nothing.
C2_LaterCallReturnsCachedObject ==
    [][\A c \in NewCalls :
          (\E d \in DOMAIN calls :
              calls[d].pc = "returned" /\ calls[d].req = calls'[c].req)
          => /\ HasKey(dataCache, cacheKey(calls'[c].req))
             /\ calls'[c].pc = "returned"
             /\ calls'[c].result = Get(dataCache, cacheKey(calls'[c].req))
             /\ calls'[c].result \in DOMAIN heap
             /\ FetchesBy(fetchLog', c) = {}
             /\ dataCache' = dataCache
             /\ heap' = heap]_vars

\* A scoped loader returned a document it built, a later call with the same
\* arguments returned the same object, and the file was fetched once.
C2_Witness ==
    \E c, d \in DOMAIN calls :
        /\ c < d
        /\ IsScoped(calls[c].req)
        /\ calls[d].req = calls[c].req
        /\ calls[c].pc = "returned" /\ ~calls[c].hit
        /\ calls[d].pc = "returned" /\ calls[d].hit
        /\ calls[d].result = calls[c].result
        /\ Cardinality(FetchesOf(fetchLog, fetchUrl(FileRequest(calls[c].req)))) = 1

FetchFailsFor(c) ==
    /\ c \in DOMAIN calls
    /\ calls[c].pc \in {"fetching", "parentFetching"}
    /\ calls'[c].pc = "threw"

\* C3 as stated: when the fetch of a call fails, the cache has no entry for the
\* key of the file afterwards.
C3_NoEntryAfterFailure ==
    [][\A c \in DOMAIN calls :
          FetchFailsFor(c)
          => ~HasKey(dataCache', cacheKey(FetchedRequest(calls[c])))]_vars

\* C3 amended: a call whose fetch fails has made exactly one fetch, throws an
\* error and leaves the cache and the documents as they were; the key of the
\* file has an entry afterwards only if another call's fetch of the same file
\* succeeded or a call for another request stored its document under the same
\* key.  No call ever fetches again after its first await, and a later
\* call for a key that a failure left without entry issues a new fetch.
C3_FailureStoresNothing ==
    [][/\ \A c \in DOMAIN calls :
             FetchFailsFor(c)
             => /\ dataCache' = dataCache
                /\ heap' = heap
                /\ calls'[c].err # ""
                /\ calls'[c].result = 0
                /\ Cardinality(FetchesBy(fetchLog', c)) = 1
                /\ \A i \in FetchesBy(fetchLog', c) : fetchLog'[i].outcome = "failed"
                /\ HasKey(dataCache', cacheKey(FetchedRequest(calls[c])))
                   => \/ \E i \in DOMAIN fetchLog :
                            /\ fetchLog[i].call # c
                            /\ fetchLog[i].url = fetchUrl(FetchedRequest(calls[c]))
                            /\ fetchLog[i].outcome = "ok"
                      \/ \E d \in DOMAIN calls :
                            /\ calls[d].req # FetchedRequest(calls[c])
                            /\ cacheKey(calls[d].req) = cacheKey(FetchedRequest(calls[c]))
                            /\ calls[d].pc = "returned"
                            /\ ~calls[d].hit
       /\ \A c \in DOMAIN calls : FetchesBy(fetchLog', c) = FetchesBy(fetchLog, c)
       /\ \A c \in NewCalls :
             (/\ \E d \in DOMAIN calls :
                    calls[d].pc = "threw" /\ calls[d].req = calls'[c].req
              /\ ~HasKey(dataCache, cacheKey(calls'[c].req))
              /\ ~HasKey(dataCache, cacheKey(FileRequest(calls'[c].req))))
             => Cardinality(FetchesBy(fetchLog', c)) = 1]_vars

\* A fetch failed, its key has no entry, and a later call for the same key has
\* issued a second fetch of the file.
C3_Witness ==
    \E c, d \in DOMAIN calls :
        /\ c < d
        /\ calls[d].req = calls[c].req
        /\ calls[c].pc = "threw"
        /\ ~HasKey(dataCache, cacheKey(FileRequest(calls[c].req)))
        /\ \E i \in FetchesBy(fetchLog, c), j \in FetchesBy(fetchLog, d) :
              /\ i < j
              /\ fetchLog[i].outcome = "failed"
              /\ fetchLog[j].url = fetchLog[i].url

\* C4: a call for a key that is not cached issues a fetch of its own, whether or
\* not a fetch of the same file is in flight.
C4_EachUncachedCallFetches ==
    [][\A c \in NewCalls :
          (/\ ~HasKey(dataCache, cacheKey(calls'[c].req))
           /\ ~HasKey(dataCache, cacheKey(FileRequest(calls'[c].req))))
          => \E i \in DOMAIN fetchLog' \ DOMAIN fetchLog :
                /\ fetchLog'[i].call = c
                /\ fetchLog'[i].url = fetchUrl(FileRequest(calls'[c].req))
                /\ fetchLog'[i].outcome = "pending"]_vars

\* The two loadData calls of the mounting state page each have a fetch of the
\* same state file in flight.
C4_Witness ==
    \E c, d \in DOMAIN calls :
        /\ c # d
        /\ calls[c].page /\ calls[d].page
        /\ calls[c].req = calls[d].req
        /\ \E i \in FetchesBy(fetchLog, c), j \in FetchesBy(fetchLog, d) :
              /\ fetchLog[i].url = fetchLog[j].url
              /\ fetchLog[i].outcome = "pending"
              /\ fetchLog[j].outcome = "pending"

\* C9: the document cached under a key that is not year- or month-scoped has
\* the metrics and the child list of the file it was parsed from, whatever
\* scoped loads and filter calls have run.
C9_CachedOriginalKept ==
    \A req \in Requests :
        (~IsScoped(req) /\ HasKey(dataCache, cacheKey(req)))
        => LET original == heap[Get(dataCache, cacheKey(req))]
           IN  /\ original.metrics = FileContent(req).metrics
               /\ original.children = FileContent(req).children

\* A state's year view and month view are cached, as documents with filtered
\* metrics and no children, next to the full document they were made from.
C9_Witness ==
    \E st \in States, y \in ScopeYears, m \in ScopeMonths :
        LET full == Request("loadStateData", st, "", 0, 0)
            byYear == Request("loadStateYearData", st, "", y, 0)
            byMonth == Request("loadStateMonthData", st, "", y, m)
        IN  /\ HasKey(dataCache, cacheKey(full))
            /\ HasKey(dataCache, cacheKey(byYear))
            /\ HasKey(dataCache, cacheKey(byMonth))
            /\ heap[Get(dataCache, cacheKey(full))].children # <<>>
            /\ heap[Get(dataCache, cacheKey(byYear))].children = <<>>
            /\ heap[Get(dataCache, cacheKey(byYear))].metrics
                   # heap[Get(dataCache, cacheKey(full))].metrics
            /\ heap[Get(dataCache, cacheKey(byMonth))].metrics
                   # heap[Get(dataCache, cacheKey(byYear))].metrics

NonOverlappingScopedCalls ==
    \A c \in DOMAIN calls : IsScoped(calls[c].req) /\ ~calls[c].overlap

\* C10 as stated: after non-overlapping calls of the scoped loaders, at most
\* one fetch of each full document has been issued.
C10_OneFetchPerParent ==
    NonOverlappingScopedCalls
    => \A req \in Requests :
          Cardinality(FetchesOf(fetchLog, fetchUrl(FileRequest(req)))) <= 1

\* C10 amended: after non-overlapping calls of the scoped loaders, at most one
\* fetch of each full document has not failed, and it is the last one issued.
C10_OneFetchPerParentUnlessFailed ==
    NonOverlappingScopedCalls
    => \A req \in Requests :
          LET fetches == FetchesOf(fetchLog, fetchUrl(FileRequest(req)))
          IN  \A i, j \in fetches : i < j => fetchLog[i].outcome = "failed"

\* A year view and a month view of one parent were loaded one after the other
\* with a single fetch.
C10_Witness ==
    /\ NonOverlappingScopedCalls
    /\ \E c, d \in DOMAIN calls :
          /\ c < d
          /\ calls[c].req # calls[d].req
          /\ ParentRequest(calls[c].req) = ParentRequest(calls[d].req)
          /\ calls[c].pc = "returned" /\ calls[d].pc = "returned"
          /\ Cardinality(FetchesOf(fetchLog,
                                   fetchUrl(ParentRequest(calls[c].req)))) = 1

YearScoped == {"loadCountryYearData", "loadStateYearData"}

\* C11: the document a scoped loader returns has no children, has for metrics
\* filterMetricsByYear (year loaders) or filterMetricsByYearMonth (month
\* loaders) of the metrics of the cached full document, and has every other
\* field of the full document.
C11_ScopedDocumentShape ==
    \A c \in DOMAIN calls :
        (IsScoped(calls[c].req) /\ calls[c].pc = "returned")
        => LET req == calls[c].req
               scopedData == heap[calls[c].result]
               fullData == heap[Get(dataCache, cacheKey(ParentRequest(req)))]
               filtered == IF req.loader \in YearScoped
                           THEN filterMetricsByYear(fullData.metrics, req.year)
                           ELSE filterMetricsByYearMonth(fullData.metrics,
                                                         req.year, req.month)
           IN  /\ ~filtered.threw
               /\ scopedData.children = <<>>
               /\ scopedData.metrics = filtered.value
               /\ scopedData.level = fullData.level
               /\ scopedData.state = fullData.state
               /\ scopedData.code = fullData.code

\* A month-scoped loader returned a document that kept some metrics, but not
\* all, of a full document that has children.
C11_Witness ==
    \E c \in DOMAIN calls :
        /\ calls[c].req.loader \in {"loadCountryMonthData", "loadStateMonthData"}
        /\ calls[c].pc = "returned"
        /\ heap[calls[c].result].metrics # <<>>
        /\ heap[calls[c].result].children = <<>>
        /\ LET fullData == heap[Get(dataCache, cacheKey(ParentRequest(calls[c].req)))]
           IN  /\ fullData.children # <<>>
               /\ fullData.metrics # heap[calls[c].result].metrics

ParentFetchFailsFor(c) ==
    /\ c \in DOMAIN calls
    /\ calls[c].pc = "parentFetching"
    /\ calls'[c].pc = "threw"

\* C12: when the fetch of the full document fails inside a scoped loader, the
\* scoped loader throws that error, returns no document and stores nothing;
\* a call that threw never stores anything later, and every entry under a
\* scoped key was stored by a call that built the document and returned it.
C12_FailedParentStoresNothing ==
    /\ [][\A c \in DOMAIN calls :
             /\ ParentFetchFailsFor(c)
                => /\ dataCache' = dataCache
                   /\ heap' = heap
                   /\ calls'[c].result = 0
                   /\ calls'[c].err \in
                          {failureMessage(ParentRequest(calls[c].req), status) :
                              status \in ResponseStatuses}
                          \cup {NetworkErrorMessage}
             /\ calls[c].pc = "threw"
                => /\ calls'[c].pc = "threw"
                   /\ calls'[c].result = 0
                   /\ calls'[c].err = calls[c].err]_vars
    /\ [](\A req \in Requests :
             (IsScoped(req) /\ HasKey(dataCache, cacheKey(req)))
             => \E c \in DOMAIN calls :
                   /\ calls[c].req = req
                   /\ calls[c].pc = "returned"
                   /\ ~calls[c].hit
                   /\ calls[c].result \in Range(Values(dataCache)))

\* A scoped loader threw the error of a full document that was not found, and
\* neither its key nor the key of the full document has an entry.
C12_Witness ==
    \E c \in DOMAIN calls, status \in ResponseStatuses :
        /\ IsScoped(calls[c].req)
        /\ calls[c].pc = "threw"
        /\ calls[c].err = failureMessage(ParentRequest(calls[c].req), status)
        /\ ~HasKey(dataCache, cacheKey(calls[c].req))
        /\ ~HasKey(dataCache, cacheKey(ParentRequest(calls[c].req)))

\* C13: a key of dataCache is a key of dataCache in the next state, whichever
\* step is taken.
C13_NoEviction ==
    [][\A k \in Range(Keys(dataCache)) : HasKey(dataCache', k)]_vars

\* A document is still cached after a later call failed and after another
\* key was stored.
C13_Witness ==
    \E c, d \in DOMAIN calls :
        /\ c < d
        /\ calls[c].pc = "returned" /\ ~calls[c].hit
        /\ calls[d].pc = "threw"
        /\ \A i \in FetchesBy(fetchLog, c), j \in FetchesBy(fetchLog, d) : i < j
        /\ HasKey(dataCache, cacheKey(calls[c].req))
        /\ Len(dataCache) >= 2

\* The requests a document of the heap was stored for: those of the calls that
\* built or fetched it, and the full-document request of the scoped calls that
\* were given it by the loader they awaited.
StoredFor(o) ==
    {calls[d].req : d \in {e \in DOMAIN calls :
                              calls[e].result = o /\ ~calls[e].hit}}
    \cup {ParentRequest(calls[d].req) :
             d \in {e \in DOMAIN calls : IsScoped(calls[e].req) /\ calls[e].parent = o}}

\* C25 as stated: two different requests never have the same cache key, and a
\* call answered from the cache gets a document that was stored for its own
\* request.
C25_KeysInjective ==
    /\ \A c, d \in DOMAIN calls :
          calls[c].req # calls[d].req
          => cacheKey(calls[c].req) # cacheKey(calls[d].req)
    /\ \A c \in DOMAIN calls :
          (calls[c].pc = "returned" /\ calls[c].hit)
          => calls[c].req \in StoredFor(calls[c].result)

PageCalls == {c \in DOMAIN calls : calls[c].page}

\* C26 as stated: when the state page was asked for two states and every
\* loadData call has returned its document and finished, data is the document
\* loaded for the state the page is on.
C26_LatestStateWins ==
    (/\ \E c, d \in PageCalls : calls[c].req.state # calls[d].req.state
     /\ \A c \in PageCalls : calls[c].pc = "returned" /\ calls[c].resumed)
    => \E c \in PageCalls :
          /\ calls[c].req.state = page.state
          /\ calls[c].result = page.data

\* C27 as stated: loading is true while a loadData call of the page has not
\* finished, and error is non-empty only if the loadData call started last
\* has failed.
C27_LoadingWhilePending ==
    /\ (\E c \in PageCalls : ~calls[c].resumed) => page.loading
    /\ (page.error # "" /\ PageCalls # {})
       => LET latest == CHOOSE c \in PageCalls : \A d \in PageCalls : d <= c
          IN  calls[latest].pc = "threw"

-----------------------------------------------------------------------------
(* Claims about the pure functions, checked under SpecAgg. *)

RECURSIVE SumTotalsByMetric(_, _)
SumTotalsByMetric(optimizedMetrics, metricKeys) ==
    IF metricKeys = <<>> THEN 0
    ELSE SumTotalsByMetric(optimizedMetrics, Front(metricKeys))
         + calculateTotalsByMetric(optimizedMetrics, Last(metricKeys), NoName)

\* C1: calculateTotalRecords(model) is the sum, over the metric keys of the model,
\* of calculateTotalsByMetric(model, metric) called without a name.
C1_TotalRecordsIsSumOfMetricTotals ==
    view.op = "calculateTotalRecords" =>
        view.total = SumTotalsByMetric(model, Keys(model))

\* C1 witness: the grand total of an object of two metrics, one holding a bare
\* number and the other an array of data points.
C1_Witness ==
    /\ view.op = "calculateTotalRecords"
    /\ Len(model) = 2
    /\ Len(model[1].val) = 1 /\ model[1].val[1].val.kind = "number"
    /\ Len(model[2].val) = 1 /\ model[2].val[1].val.kind = "array"
    /\ Len(model[2].val[1].val.pts) = MaxPts
    /\ view.total > MaxPts

\* C5: both filters are idempotent on a time-series object: filtering the result
\* again with the same year (and month) returns a structurally identical object.
C5_FiltersIdempotent ==
    /\ (view.op = "filterMetricsByYearMonth" /\ ~view.threw) =>
           filterMetricsByYearMonth(view.value, view.year, view.month)
               = Returned(view.value)
    /\ (view.op = "filterMetricsByYear" /\ ~view.threw) =>
           filterMetricsByYear(view.value, view.year) = Returned(view.value)

\* C5 witness: a month filter that dropped one whole metric and kept another.
C5_Witness ==
    /\ view.op = "filterMetricsByYearMonth"
    /\ ~view.threw
    /\ Len(model) = 2
    /\ Len(model[1].val) = 1 /\ Len(model[2].val) = 1
    /\ Len(view.value) = 1
    /\ view.value[1].key = model[2].key

\* C6: filtering by year and month gives the same object whether or not the
\* object was filtered by that year first.
C6_YearThenMonthIsMonth ==
    (view.op = "filterMetricsByYearMonth" /\ ~view.threw) =>
        LET byYear == filterMetricsByYear(model, view.year)
        IN  /\ ~byYear.threw
            /\ filterMetricsByYearMonth(byYear.value, view.year, view.month)
                   = Returned(view.value)

\* C6 witness: a month filter keeping the second of two points of the year.
C6_Witness ==
    /\ view.op = "filterMetricsByYearMonth"
    /\ ~view.threw
    /\ Len(model) = 1 /\ Len(model[1].val) = 1
    /\ Len(model[1].val[1].val.pts) = 2
    /\ model[1].val[1].val.pts[1].year = view.year
    /\ model[1].val[1].val.pts[1].month # view.month
    /\ view.value = <<Entry(model[1].key, <<Entry(model[1].val[1].key,
                         ArraySeries(<<model[1].val[1].val.pts[2]>>))>>)>>

RECURSIVE SumTrendsOfYear(_, _)
SumTrendsOfYear(trends, year) ==
    IF trends = <<>> THEN 0
    ELSE SumTrendsOfYear(Front(trends), year)
         + (IF Last(trends).year = year THEN Last(trends).total_count ELSE 0)

\* C7: for a time-series object, the total of a metric in the object filtered to
\* year Y is the sum of total_count over the monthly trend entries of year Y of
\* the unfiltered object (0 on both sides when the metric has no data in Y).
C7_YearTotalIsSumOfTrends ==
    (view.op = "filterMetricsByYear" /\ ~view.threw) =>
        \A metric \in MetricArgs :
            calculateTotalsByMetric(view.value, metric, NoName)
                = SumTrendsOfYear(getMonthlyTrendsByMetric(model, metric, NoName),
                                  view.year)

\* C7 witness: two names of one metric with a point in the same month of the
\* year, so that a trend entry adds up counts of both.
C7_Witness ==
    /\ view.op = "filterMetricsByYear"
    /\ ~view.threw
    /\ Len(model) = 1 /\ Len(model[1].val) = 2
    /\ Len(view.value) = 1 /\ Len(view.value[1].val) = 2
    /\ Len(getMonthlyTrendsByMetric(model, model[1].key, NoName)) = 1
    /\ calculateTotalsByMetric(view.value, model[1].key, NoName) >= 2

PermutedSeqs(s) == {[i \in DOMAIN s |-> s[p[i]]] : p \in Permutations(DOMAIN s)}

\* The object with the names of the metric in another iteration order.
WithNames(optimizedMetrics, metric, names) ==
    [i \in DOMAIN optimizedMetrics |->
        IF optimizedMetrics[i].key = metric THEN Entry(metric, names)
        ELSE optimizedMetrics[i]]

NameAscending(a, b) ==
    \E i, j \in DOMAIN Names : i < j /\ Names[i] = a /\ Names[j] = b

ExampleCounts ==
    <<Entry("A", NumberSeries(100)), Entry("B", NumberSeries(100)),
      Entry("C", NumberSeries(50))>>

\* C8: getAvailableNamesSortedByTotal returns every name of the metric once,
\* by total descending and, among equal totals, by name ascending; the result is
\* the same for every iteration order of the names; {A:100, B:100, C:50} gives
\* [A, B, C].
C8_RankedNamesDeterministic ==
    /\ (view.op = "getAvailableNamesSortedByTotal" /\ HasKey(model, view.metric)) =>
           LET names == Get(model, view.metric)
               total(n) == SeriesTotal(Get(names, n))
           IN  /\ Len(view.value) = Len(names)
               /\ Range(view.value) = Range(Keys(names))
               /\ \A i, j \in DOMAIN view.value :
                      i < j =>
                          \/ total(view.value[i]) > total(view.value[j])
                          \/ /\ total(view.value[i]) = total(view.value[j])
                             /\ NameAscending(view.value[i], view.value[j])
               /\ \A other \in PermutedSeqs(names) :
                      getAvailableNamesSortedByTotal(
                          WithNames(model, view.metric, other), view.metric)
                          = view.value
    /\ (view.op = "getAvailableNamesSortedByTotal") =>
           \A counts \in PermutedSeqs(ExampleCounts) :
               getAvailableNamesSortedByTotal(<<Entry(view.metric, counts)>>,
                                              view.metric) = <<"A", "B", "C">>

\* C8 witness: two names of equal total, stored in descending name order and
\* returned in ascending name order.
C8_Witness ==
    /\ view.op = "getAvailableNamesSortedByTotal"
    /\ HasKey(model, view.metric)
    /\ Keys(Get(model, view.metric)) = <<"B", "A">>
    /\ SeriesTotal(Get(model, view.metric)[1].val)
           = SeriesTotal(Get(model, view.metric)[2].val)
    /\ SeriesTotal(Get(model, view.metric)[1].val) > 0
    /\ view.value = <<"A", "B">>

\* C14 as stated: filterMetricsByYear on an object with a series that is not an
\* array of data points returns, without failing, what the array series alone
\* give: the other series are left out.
C14_OtherEncodingsExcluded ==
    (view.op = "filterMetricsByYear" /\ ~AllArrays(model))
    => /\ ~view.threw
       /\ view.value = filterEntriesByYear(model, view.year)

\* What the code does on that input: the call throws, for every year.
C14_OtherEncodingsThrow ==
    (view.op \in {"filterMetricsByYear", "filterMetricsByYearMonth"}
        /\ ~AllArrays(model))
    => view.threw

\* The data points of the series j of the metric i that a filter call keeps.
MatchingPoints(i, j) ==
    SelectSeq(model[i].val[j].val.pts,
              LAMBDA data : /\ data.year = view.year
                            /\ view.op = "filterMetricsByYearMonth"
                                  => data.month = view.month)

\* C15: a filter result has no metric without names and no name without data
\* points; every data point in it has the requested year (and month); and
\* every series of the input is there with exactly its matching data points,
\* in their order, when it has one, and is absent when it has none.
C15_FilterResultExact ==
    (view.op \in {"filterMetricsByYear", "filterMetricsByYearMonth"} /\ ~view.threw)
    => /\ \A a \in DOMAIN view.value :
             /\ Len(view.value[a].val) > 0
             /\ \E i \in DOMAIN model : model[i].key = view.value[a].key
             /\ \A b \in DOMAIN view.value[a].val :
                   LET series == view.value[a].val[b].val
                   IN  /\ series.kind = "array"
                       /\ Len(series.pts) > 0
                       /\ \A k \in DOMAIN series.pts :
                             /\ series.pts[k].year = view.year
                             /\ view.op = "filterMetricsByYearMonth"
                                   => series.pts[k].month = view.month
       /\ \A i \in DOMAIN model : \A j \in DOMAIN model[i].val :
             LET metric == model[i].key
                 name == model[i].val[j].key
             IN  IF MatchingPoints(i, j) = <<>>
                 THEN ~(HasKey(view.value, metric)
                            /\ HasKey(Get(view.value, metric), name))
                 ELSE /\ HasKey(view.value, metric)
                      /\ HasKey(Get(view.value, metric), name)
                      /\ Get(Get(view.value, metric), name).pts = MatchingPoints(i, j)

\* A year filter dropped a whole metric and, in the metric it kept, one of the
\* two data points of a series.
C15_Witness ==
    /\ view.op = "filterMetricsByYear"
    /\ ~view.threw
    /\ Len(model) = 2
    /\ Len(view.value) = 1
    /\ \E i \in DOMAIN model :
          /\ view.value[1].key = model[i].key
          /\ Len(model[i].val) = 1
          /\ Len(model[i].val[1].val.pts) = 2
          /\ Len(view.value[1].val[1].val.pts) = 1

RECURSIVE SumOverSet(_, _)
SumOverSet(f, S) ==
    IF S = {} THEN 0
    ELSE LET x == CHOOSE y \in S : TRUE
         IN  f[x] + SumOverSet(f, S \ {x})

\* What one series is worth, by encoding.
SeriesWorth(series) ==
    CASE series.kind = "array" ->
             SumOverSet([k \in DOMAIN series.pts |-> series.pts[k].count],
                        DOMAIN series.pts)
      [] series.kind = "object" -> SumOverSet(series.vals, DOMAIN series.vals)
      [] series.kind = "number" -> series.num
      [] OTHER -> 0

\* C16: calculateTotalsByMetric is 0 for an absent metric; otherwise it is the
\* sum, over the names of the metric (the given name only, when one is given),
\* of the counts of an array, the values of a month-key map, or the number
\* itself, a series of any other shape counting for 0.
C16_TotalsOverAllEncodings ==
    view.op = "calculateTotalsByMetric"
    => IF ~HasKey(model, view.metric) THEN view.total = 0
       ELSE LET names == Get(model, view.metric)
                chosen == {j \in DOMAIN names :
                              view.name = NoName \/ names[j].key = view.name}
            IN  view.total
                    = SumOverSet([j \in DOMAIN names |-> SeriesWorth(names[j].val)],
                                 chosen)

\* A total over all names of a metric that has a month-key map and a number.
C16_Witness ==
    /\ view.op = "calculateTotalsByMetric"
    /\ view.name = NoName
    /\ HasKey(model, view.metric)
    /\ LET names == Get(model, view.metric)
       IN  /\ Len(names) = 2
           /\ names[1].val.kind = "object" /\ Len(names[1].val.vals) = 2
           /\ names[2].val.kind = "number"
    /\ view.total = 3

\* The data points, as <<name index, point index>>, that a trends call reads.
TrendPoints ==
    IF ~HasKey(model, view.metric) THEN {}
    ELSE LET names == Get(model, view.metric)
         IN  {jk \in (DOMAIN names) \X (1..MaxPts) :
                 /\ view.name = NoName \/ names[jk[1]].key = view.name
                 /\ names[jk[1]].val.kind = "array"
                 /\ jk[2] \in DOMAIN names[jk[1]].val.pts}

TrendPoint(jk) == Get(model, view.metric)[jk[1]].val.pts[jk[2]]

\* C17: the trends have one entry for each (year, month) of a data point of a
\* matching array series and no other entry; the total_count of an entry is
\* the sum of the counts of the data points of its (year, month); series in
\* the other encodings add nothing.
C17_TrendsGroupByYearMonth ==
    view.op = "getMonthlyTrendsByMetric"
    => /\ {<<view.value[t].year, view.value[t].month>> : t \in DOMAIN view.value}
              = {<<TrendPoint(jk).year, TrendPoint(jk).month>> : jk \in TrendPoints}
       /\ \A t, u \in DOMAIN view.value :
             (view.value[t].year = view.value[u].year
                 /\ view.value[t].month = view.value[u].month) => t = u
       /\ \A t \in DOMAIN view.value :
             LET same == {jk \in TrendPoints :
                             /\ TrendPoint(jk).year = view.value[t].year
                             /\ TrendPoint(jk).month = view.value[t].month}
             IN  view.value[t].total_count
                     = SumOverSet([jk \in TrendPoints |-> TrendPoint(jk).count], same)

\* Trends over all names of a metric with a month-key map and an array of two
\* data points, of two months of one year: two entries.
C17_Witness ==
    /\ view.op = "getMonthlyTrendsByMetric"
    /\ view.name = NoName
    /\ Len(view.value) = 2
    /\ view.value[1].year = view.value[2].year
    /\ \E j \in DOMAIN Get(model, view.metric) :
          Get(model, view.metric)[j].val.kind = "object"

FormatsAs(n, str) ==
    (view.op \in {"formatCount", "formatNumber"} /\ model = NumberValue(n))
    => (~view.threw /\ view.value = str)

\* C18: the count formatter renders 999 as "999", 1000 as "1.0K", 99999 as
\* "100.0K", 100000 as "1.0 L", 9999999 as "100.0 L" and 10000000 as "1.0 Cr".
C18_FormatterBoundaries ==
    /\ FormatsAs(999, "999")
    /\ FormatsAs(1000, "1.0K")
    /\ FormatsAs(99999, "100.0K")
    /\ FormatsAs(100000, "1.0 L")
    /\ FormatsAs(9999999, "100.0 L")
    /\ FormatsAs(10000000, "1.0 Cr")

\* formatCount rendered 99999, the largest count of the K tier, as "100.0K".
C18_Witness ==
    /\ view.op = "formatCount"
    /\ model = NumberValue(99999)
    /\ view.value = "100.0K"

\* str is n / d written with one decimal: the tenth nearest to the quotient,
\* either of the two when the quotient is midway, followed by the suffix.
OneDecimal(n, d, suffix, str) ==
    \E tenths \in ((10 * n) \div d)..((10 * n) \div d + 1) :
        /\ 2 * (10 * n - tenths * d) <= d
        /\ 2 * (tenths * d - 10 * n) <= d
        /\ str = ToString(tenths \div 10) \o "." \o ToString(tenths % 10) \o suffix

\* C19: formatCount of a non-negative integer n is n / 10,000,000 with one
\* decimal and " Cr" when n >= 10,000,000; else n / 100,000 with one decimal
\* and " L" when n >= 100,000; else n / 1,000 with one decimal and "K" when
\* n >= 1,000; else the digits of n.
C19_TierByThreshold ==
    (view.op = "formatCount" /\ model.kind = "number" /\ model.n >= 0)
    => /\ ~view.threw
       /\ IF model.n >= 10000000 THEN OneDecimal(model.n, 10000000, " Cr", view.value)
          ELSE IF model.n >= 100000 THEN OneDecimal(model.n, 100000, " L", view.value)
          ELSE IF model.n >= 1000 THEN OneDecimal(model.n, 1000, "K", view.value)
          ELSE view.value = ToString(model.n)

\* formatCount rendered 110000, inside the lakh tier, as "1.1 L".
C19_Witness ==
    /\ view.op = "formatCount"
    /\ model = NumberValue(110000)
    /\ view.value = "1.1 L"

\* C20: for null, undefined and NaN, formatNumber and formatCount return "0"
\* and formatCurrency returns "₹0"; none of them throws.
C20_InvalidInputIsZero ==
    (view.op # "none" /\ model \in {NullValue, UndefinedValue, NaNValue})
    => /\ ~view.threw
       /\ view.op \in {"formatNumber", "formatCount"} => view.value = "0"
       /\ view.op = "formatCurrency" => view.value = "₹0"

\* formatCurrency rendered NaN as "₹0".
C20_Witness ==
    /\ view.op = "formatCurrency"
    /\ model = NaNValue
    /\ view.value = "₹0"

\* C21: formatMetricValue(value, metric) is formatCurrency(value) when the
\* first seven characters of metric are 'Revenue', and formatCount(value) for
\* every other metric.
C21_MetricDispatch ==
    view.op = "formatMetricValue"
    => LET isRevenue == /\ Len(view.metric) >= 7
                        /\ \A i \in 1..7 : view.metric[i] = RevenuePrefix[i]
           expected == IF isRevenue THEN formatCurrency(model, view.up)
                       ELSE formatCount(model, view.up)
       IN  view.threw = expected.threw /\ view.value = expected.value

\* 'Tax Revenue', which holds 'Revenue' but does not start with it, was
\* formatted as a count.
C21_Witness ==
    /\ view.op = "formatMetricValue"
    /\ view.metric = TaxRevenue
    /\ model = NumberValue(110000)
    /\ view.value = "1.1 L"

\* C22: for every argument, formatCurrency is the rupee sign followed by
\* formatCount, and formatNumber is formatCount.
C22_CurrencyIsPrefixedCount ==
    LET count == formatCount(model, view.up)
    IN  /\ view.op = "formatCurrency"
           => /\ view.threw = count.threw
              /\ ~view.threw => view.value = "₹" \o count.value
        /\ view.op = "formatNumber"
           => /\ view.threw = count.threw
              /\ view.value = count.value

\* formatCurrency rendered null as the sign and formatCount's "0".
C22_Witness ==
    /\ view.op = "formatCurrency"
    /\ model = NullValue
    /\ ~view.threw
    /\ view.value = "₹0"

\* The (metric, name) pairs of the model, as <<metric index, name index>>.
ModelPairs == {ij \in (DOMAIN model) \X (1..MaxSeries) : ij[2] \in DOMAIN model[ij[1]].val}

PairOf(triple) ==
    CHOOSE ij \in ModelPairs :
        /\ model[ij[1]].key = triple.Metric
        /\ model[ij[1]].val[ij[2]].key = triple.Name

\* C23: flattenMetrics has one triple for each (metric, name) pair and nothing
\* else, each with the total of its series by encoding; the triples are in
\* descending order of total_count, and triples of equal total are in the
\* order in which the object yields their pairs.
C23_FlattenSortedStable ==
    view.op = "flattenMetrics"
    => /\ Len(view.value) = Cardinality(ModelPairs)
       /\ {view.value[p] : p \in DOMAIN view.value}
              = {[Metric |-> model[ij[1]].key,
                  Name |-> model[ij[1]].val[ij[2]].key,
                  total_count |-> SeriesWorth(model[ij[1]].val[ij[2]].val)] :
                     ij \in ModelPairs}
       /\ \A p, q \in DOMAIN view.value :
             p < q
             => \/ view.value[p].total_count > view.value[q].total_count
                \/ /\ view.value[p].total_count = view.value[q].total_count
                   /\ LET a == PairOf(view.value[p])
                          b == PairOf(view.value[q])
                      IN  a[1] < b[1] \/ (a[1] = b[1] /\ a[2] < b[2])

\* Two series of two metrics with the same total, in different encodings,
\* flattened in the order of the metrics.
C23_Witness ==
    /\ view.op = "flattenMetrics"
    /\ Len(model) = 2
    /\ Len(view.value) = 2
    /\ view.value[1].total_count = 2
    /\ view.value[2].total_count = 2
    /\ view.value[1].Metric = model[1].key
    /\ model[1].val[1].val.kind = "object"
    /\ model[2].val[1].val.kind = "array"

\* C24: calculateMetricSummaries has one entry for each metric of the object
\* and nothing else, each with calculateTotalsByMetric of the metric over all
\* names, in descending order of total_count.
C24_SummariesPerMetric ==
    view.op = "calculateMetricSummaries"
    => /\ Len(view.value) = Len(model)
       /\ {view.value[p] : p \in DOMAIN view.value}
              = {[Metric |-> model[i].key,
                  total_count |-> calculateTotalsByMetric(model, model[i].key, NoName)] :
                     i \in DOMAIN model}
       /\ \A p, q \in DOMAIN view.value :
             p < q => view.value[p].total_count >= view.value[q].total_count

\* The second metric of the object has the larger total and comes first.
C24_Witness ==
    /\ view.op = "calculateMetricSummaries"
    /\ Len(model) = 2
    /\ Len(view.value) = 2
    /\ view.value[1].Metric = model[2].key
    /\ view.value[1].total_count > view.value[2].total_count
    /\ view.value[2].total_count > 0

RECURSIVE SumRecordsOfYears(_)
SumRecordsOfYears(years) ==
    IF years = <<>> THEN 0
    ELSE SumRecordsOfYears(Front(years))
         + calculateTotalRecords(filterMetricsByYear(model, Last(years)).value)

\* C28: on a time-series object, the totals of the year views of the years of
\* getAvailableYears add up to calculateTotalRecords of the object, and the
\* year view of any other year is empty.
C28_YearsPartitionTotal ==
    (view.op = "getAvailableYears" /\ AllArrays(model))
    => /\ ~view.threw
       /\ \A p, q \in DOMAIN view.value : p # q => view.value[p] # view.value[q]
       /\ SumRecordsOfYears(view.value) = calculateTotalRecords(model)
       /\ \A year \in (Years \cup {2021}) \ Range(view.value) :
             filterMetricsByYear(model, year) = Returned(<<>>)

\* An object with data points of two years, stored oldest first.
C28_Witness ==
    /\ view.op = "getAvailableYears"
    /\ view.value = <<2023, 2022>>
    /\ Len(model) = 1
    /\ Len(model[1].val) = 1
    /\ model[1].val[1].val.kind = "array"
    /\ Len(model[1].val[1].val.pts) = 2
    /\ model[1].val[1].val.pts[1].year = 2022
    /\ calculateTotalRecords(model) = 2

\* C29: the breadcrumbs start with 'India' linked to '/', exactly one item is
\* the current one, and it is the last.
C29_BreadcrumbsOneCurrentLast ==
    view.op = "generateBreadcrumbs"
    => /\ Len(view.value) >= 1
       /\ view.value[1].label = "India"
       /\ view.value[1].href = "/"
       /\ \A i \in DOMAIN view.value : view.value[i].current <=> i = Len(view.value)

\* The breadcrumbs of an RTO month route: five items, the month being current.
C29_Witness ==
    /\ view.op = "generateBreadcrumbs"
    /\ Len(view.value) = 5
    /\ view.value[5] = Crumb("Jan", "/KA/1/2022/1", TRUE)
    /\ view.value[3] = Crumb("RTO 1", "/KA/1", FALSE)

Flipped(direction) == IF direction = "asc" THEN "desc" ELSE "asc"
DefaultDirection(column) == IF column = "name" THEN "asc" ELSE "desc"

\* C30 as stated, last part: from any state, two consecutive clicks on one
\* column leave sortDirection as it was.
C30_TwoClicksRestore ==
    \A c \in SortColumns :
        toggleSort(toggleSort(page, c), c).sortDirection = page.sortDirection

\* C30 amended: a click on c leaves sortBy = c; it flips sortDirection and
\* nothing else when sortBy was c, and sets the default of c ('asc' for name,
\* 'desc' for count) when it was not; two consecutive clicks on the column the
\* table is sorted by restore the state, while two on the other column leave
\* the flip of that column's default.
C30_ToggleSortMachine ==
    /\ [][page' # page
          => LET c == page'.clicked
             IN  /\ c \in SortColumns
                 /\ page'.sortBy = c
                 /\ page.sortBy = c => page'.sortDirection = Flipped(page.sortDirection)
                 /\ page.sortBy # c => page'.sortDirection = DefaultDirection(c)]_vars
    /\ [](\A c \in SortColumns :
             LET twice == toggleSort(toggleSort(page, c), c)
             IN  /\ twice.sortBy = c
                 /\ page.sortBy = c => twice.sortDirection = page.sortDirection
                 /\ page.sortBy # c
                    => twice.sortDirection = Flipped(DefaultDirection(c)))

\* The table is sorted by name descending after a click on name: the second of
\* two clicks on that column.
C30_Witness ==
    /\ page.clicked = "name"
    /\ page.sortBy = "name"
    /\ page.sortDirection = "desc"

====
